---- MODULE Spec2Model ----
(***************************************************************************)
(* ClickUp Taskmaster remote MCP server: the OAuth 2.0 handlers of         *)
(* src/auth/oauth.ts over the OAUTH_KV key-value store, and the tool       *)
(* dispatchers of src/index.ts over the upstream client functions of       *)
(* src/tools/*.ts.                                                         *)
(*                                                                         *)
(* A handler is an async function: every `await` is a scheduling point.    *)
(* The handlers share nothing but the key-value store, so an action is one *)
(* store operation of a handler together with the code that follows it up  *)
(* to the next store operation (or the return): the upstream fetches in    *)
(* between touch no shared state, and their answers are inputs of the      *)
(* action.  The code between two awaits is one operator (After...).        *)
(***************************************************************************)
EXTENDS Integers, Sequences, FiniteSets, Bags, TLC

\* ------------------------------------------------------------------ bounds
\* Number of nonces generateState can hand out in one behaviour.
MaxNonces == 2
\* Number of concurrently running handleCallback invocations.
MaxCallbacks == 2

\* --------------------------------------------------------------- constants
STATE_TTL_SECONDS == 600
TOKEN_TTL_SECONDS == 31536000
\* encryptionKey.padEnd(32, "0").slice(0, 32)
KEY_LENGTH == 32

\* --------------------------------------------------------------- value sets
NoParam == "<absent>"
Absent == [absent |-> TRUE]

\* The hex strings generateState can return, in the order it returns them.
NonceNames == <<"a1f0", "b2e1", "c3d2", "d4c3">>
Nonces == {NonceNames[i] : i \in 1..MaxNonces}
\* Initialization vectors crypto.getRandomValues can draw.
IVs == {"iv0"}
\* Values of Date.now(), in milliseconds.
Timestamps == {"1764460800000"}

\* Authorization codes a caller can put in the callback URL.
Codes == {"code1"}
\* Values of the `error` query parameter.
ErrorParams == {"access_denied"}
\* Access tokens the upstream token endpoint can answer with.
AccessTokens == {"tokA", "tokB"}
\* User ids the upstream /user endpoint can answer with (0 is falsy in JS).
UserIds == {0, 101}

\* String(userData.user.id)
String(n) ==
  CASE n = 101 -> "101"
    [] n = 7 -> "7"
    [] n = 0 -> "0"
    [] OTHER -> "NaN"

TokenKeys == {"default"} \cup {String(n) : n \in UserIds \ {0}}

\* Values of COOKIE_ENCRYPTION_KEY: unset (empty), or a configured secret.
DefaultEncryptionKey ==
  <<"d","e","f","a","u","l","t","-","k","e","y","-","c","h","a","n","g","e","-","m","e">>
ConfiguredKeys == {<< >>, <<"s","3">>}

\* ------------------------------------------------------------------- state
VARIABLES
  env,        \* the Worker's bindings: client id/secret, static token, encryption key
  issued,     \* how many nonces generateState has returned
  stateKV,    \* OAUTH_KV, keys oauth_state:<nonce>
  tokenKV,    \* OAUTH_KV, keys oauth_token:<userId>
  cb,         \* the handleCallback invocations in flight (awaiting the store)
  consumed,   \* nonces whose state record a callback has found and deleted
  response,   \* what the last step returned to its caller, if it returned
  dispatcher, \* the McpAgent class the Worker exports
  call,       \* the tool invocation of the MCP session
  eval        \* a client or crypto function applied to drawn inputs

vars ==
  <<env, issued, stateKV, tokenKV, cb, consumed, response, dispatcher, call, eval>>

\* ------------------------------------------------------------ the KV store
KvGet(store, key) == store[key]

\* A put that keeps the value a key already has.
KvPutIfAbsent(store, key, value) ==
  IF store[key] = Absent THEN [store EXCEPT ![key] = value] ELSE store

KvPut(store, key, value) == [store EXCEPT ![key] = value]

\* A delete that clears the namespace.
KvDeleteAll(store, key) == [k \in DOMAIN store |-> Absent]

KvDelete(store, key) == [store EXCEPT ![key] = Absent]

\* A key put with expirationTtl is gone once its TTL has passed.
KvExpire(store, key) == [store EXCEPT ![key] = Absent]

\* ------------------------------------------------------------------ crypto
PadEnd(s, n, c) ==
  IF Len(s) < n THEN s \o [i \in 1..(n - Len(s)) |-> c] ELSE s

Slice(s, from, to) ==
  SubSeq(s, from + 1, IF to < Len(s) THEN to ELSE Len(s))

\* TextEncoder.encode of one character: UTF-8, two bytes for a character
\* outside ASCII.
Utf8(ch) == IF ch = "é" THEN <<"c3", "a9">> ELSE <<ch>>

RECURSIVE EncodeEach(_)
EncodeEach(s) == IF s = << >> THEN << >> ELSE Utf8(Head(s)) \o EncodeEach(Tail(s))

\* encoder.encode(s): ASCII text is its own encoding, one byte a character.
Encode(s) == IF \A i \in DOMAIN s : Utf8(s[i]) = <<s[i]>> THEN s ELSE EncodeEach(s)

\* encoder.encode(encryptionKey.padEnd(32, "0").slice(0, 32)): the raw key
\* bytes handed to crypto.subtle.importKey.
KeyBytes(encryptionKey) == Encode(Slice(PadEnd(encryptionKey, KEY_LENGTH, "0"), 0, KEY_LENGTH))

\* The bytes of the fallback key, computed once.
DefaultKeyBytes == KeyBytes(DefaultEncryptionKey)

ImportKey(encryptionKey) ==
  IF encryptionKey = DefaultEncryptionKey THEN DefaultKeyBytes ELSE KeyBytes(encryptionKey)

\* importKey("raw", bytes, AES-GCM) takes 128, 192 or 256 bits and throws a
\* DataError for any other length.
ValidKeyLength(bytes) == Len(bytes) \in {16, 24, 32}

\* env.COOKIE_ENCRYPTION_KEY || "default-key-change-me"
EncryptionKey(e) ==
  IF e.COOKIE_ENCRYPTION_KEY = << >> THEN DefaultEncryptionKey ELSE e.COOKIE_ENCRYPTION_KEY

\* JSON.stringify(token): the members in order, as name/value pairs.
TokenFields == <<"access_token", "token_type", "created_at">>
JsonStringify(token) == [i \in DOMAIN TokenFields |-> <<TokenFields[i], token[TokenFields[i]]>>]

\* JSON.parse of such a text.
JsonParse(text) ==
  [n \in {text[i][1] : i \in DOMAIN text} |->
     text[CHOOSE i \in DOMAIN text : text[i][1] = n][2]]

EncryptFailed == [failed |-> TRUE]

\* Encryption under the raw key string, without the padding of importKey.
encryptTokenRawKey(token, encryptionKey, iv) ==
  [iv |-> iv, key |-> encryptionKey, data |-> JsonStringify(token), intact |-> TRUE]

\* AES-GCM under the imported key and the drawn iv; the stored string is
\* base64(iv ++ ciphertext), which atob/slice take apart again.  `intact`
\* says the stored string is still the one encryptToken returned.
encryptToken(token, encryptionKey, iv) ==
  LET keyMaterial == ImportKey(encryptionKey) IN
  IF ~ValidKeyLength(keyMaterial)
    THEN EncryptFailed
    ELSE [iv |-> iv, key |-> keyMaterial, data |-> JsonStringify(token), intact |-> TRUE]

DecryptFailed == [failed |-> TRUE, in |-> "decryptToken"]

\* A decryption that returns the stored bytes whatever the key.
decryptTokenUnauthenticated(encryptedData, encryptionKey) ==
  JsonParse(encryptedData.data)

\* AES-GCM decryption authenticates: it throws unless the imported key is
\* the one the data was encrypted under and the stored string is intact.
decryptToken(encryptedData, encryptionKey) ==
  LET keyMaterial == ImportKey(encryptionKey) IN
  IF /\ encryptedData.intact
     /\ ValidKeyLength(keyMaterial)
     /\ encryptedData.key = keyMaterial
    THEN JsonParse(encryptedData.data)
    ELSE DecryptFailed

NoToken == "<null>"

getStoredToken(store, e, userId) ==
  LET encryptedToken == KvGet(store, userId) IN
  IF encryptedToken = Absent
    THEN NoToken
    ELSE LET token == decryptToken(encryptedToken.value, EncryptionKey(e)) IN
         IF token = DecryptFailed THEN NoToken ELSE token.access_token


\* ------------------------------------------------------------- environment
\* JavaScript truthiness of a string-or-null value.
Truthy(s) == s # NoParam /\ s # ""

Envs ==
  [CLICKUP_CLIENT_ID : {"", "client-id"},
   CLICKUP_CLIENT_SECRET : {"", "client-secret"},
   CLICKUP_API_TOKEN : {"", "pk_static"},
   COOKIE_ENCRYPTION_KEY : ConfiguredKeys]

\* The OAuth handlers never read CLICKUP_API_TOKEN, and they treat every
\* encryption key alike: the handlers run with the key left unset (the
\* fallback key), the dispatcher specification reads stores of both keys.
OAuthEnvs ==
  {e \in Envs : e.CLICKUP_API_TOKEN = "" /\ e.COOKIE_ENCRYPTION_KEY = << >>}

\* The `state` values a callback URL can carry: issued nonces, and nonces
\* generateState has not returned (yet), which stand for forged ones.
StateKeys == Nonces

\* ---------------------------------------------------------- handleAuthorize
\* The step was not a return.
NoResponse == [handler |-> "none"]

\* A generator that returns the same value every time.
ReusedState == NonceNames[1]

\* generateState(): 32 random bytes in hex; a value it has not returned before.
GenerateState == NonceNames[issued + 1]

AuthorizeNotConfigured ==
  /\ ~Truthy(env.CLICKUP_CLIENT_ID)
  /\ response' = [handler |-> "authorize", status |-> 500,
                  body |-> "Configuration Error", state |-> NoParam]
  /\ UNCHANGED <<env, issued, stateKV, tokenKV, cb, consumed, dispatcher, call, eval>>

\* A redirect whose state is never written to the store.
AuthorizeRedirectUnstored(redirect_after, now) ==
  /\ Truthy(env.CLICKUP_CLIENT_ID)
  /\ issued < MaxNonces
  /\ response' = [handler |-> "authorize", status |-> 302,
                  body |-> "redirect", state |-> GenerateState]
  /\ issued' = issued + 1
  /\ UNCHANGED <<env, stateKV, tokenKV, cb, consumed, dispatcher, call, eval>>

\* Lines 143-165: generateState, OAUTH_KV.put of the state record, and the
\* 302 to the authorization URL with client_id, redirect_uri and state.
AuthorizeRedirect(redirect_after, now) ==
  /\ Truthy(env.CLICKUP_CLIENT_ID)
  /\ issued < MaxNonces
  /\ LET state == GenerateState
         stateData == [redirect_after |-> redirect_after, created_at |-> now]
     IN /\ stateKV' = KvPut(stateKV, state,
                            [value |-> stateData, expirationTtl |-> STATE_TTL_SECONDS])
        /\ response' = [handler |-> "authorize", status |-> 302,
                        body |-> "redirect", state |-> state]
  /\ issued' = issued + 1
  /\ UNCHANGED <<env, tokenKV, cb, consumed, dispatcher, call, eval>>

HandleAuthorize ==
  \/ AuthorizeNotConfigured
  \/ \E redirect_after \in {NoParam}, t \in Timestamps :
        AuthorizeRedirect(redirect_after, t)

\* ----------------------------------------------------------- handleCallback
NewCallback ==
  [handler |-> "callback", pc |-> "start", state |-> NoParam, wellFormed |-> FALSE,
   nonce |-> "none", gets |-> 0, found |-> FALSE, deleted |-> FALSE, exchanges |-> 0,
   access_token |-> "", userId |-> "", encryptedToken |-> Absent, writes |-> 0,
   overwritten |-> FALSE, lookup |-> "none", status |-> 0, body |-> ""]

\* return new Response(..., { status })
\* What the invocation did stays on its record.
Respond(c, status, body) ==
  [c EXCEPT !.pc = "done", !.status = status, !.body = body, !.state = NoParam,
            !.encryptedToken = Absent]

\* An awaited fetch rejects or a body does not parse: nothing in
\* handleCallback catches it, and no Response is returned.
Raise(c) ==
  [c EXCEPT !.pc = "done", !.status = 0, !.body = "exception", !.state = NoParam,
            !.encryptedToken = Absent]

\* What has happened so far to the nonce a request carries: a callback has
\* found and deleted its state record ("consumed"), the record is stored,
\* the record's TTL has passed, or the nonce was never issued.
NonceStatus(state) ==
  IF state \notin StateKeys THEN "none"
  ELSE IF state \in consumed THEN "consumed"
  ELSE IF stateKV[state] # Absent THEN "stored"
  ELSE IF \E i \in 1..issued : NonceNames[i] = state THEN "expired"
  ELSE "never issued"

\* A handler that does not look at the error parameter.
CallbackBeginIgnoringError(code, state, error) ==
  LET r == [NewCallback EXCEPT
              !.state = state,
              !.wellFormed = Truthy(code) /\ Truthy(state) /\ ~Truthy(error),
              !.nonce = NonceStatus(state)]
  IN IF ~Truthy(code) \/ ~Truthy(state) THEN Respond(r, 400, "Invalid Request")
     ELSE [r EXCEPT !.pc = "get"]

\* Lines 175-212: read the query parameters, up to the awaited KV get.
CallbackBegin(code, state, error) ==
  LET r == [NewCallback EXCEPT
              !.state = state,
              !.wellFormed = Truthy(code) /\ Truthy(state) /\ ~Truthy(error),
              !.nonce = NonceStatus(state)]
  IN IF Truthy(error) THEN Respond(r, 400, "OAuth Error")
     ELSE IF ~Truthy(code) \/ ~Truthy(state) THEN Respond(r, 400, "Invalid Request")
     ELSE [r EXCEPT !.pc = "get"]

\* A check that accepts any answer of the store.
StateNeverMissing(storedStateJson) == FALSE

\* if (!storedStateJson)
StateMissing(storedStateJson) == storedStateJson = Absent

\* A handler that sends the token exchange before it deletes the record.
ExchangeBeforeDelete(c, storedStateJson) ==
  IF StateMissing(storedStateJson)
    THEN Respond(c, 400, "Invalid State")
    ELSE [c EXCEPT !.pc = "delete", !.found = TRUE, !.exchanges = @ + 1]

\* Lines 213-227: the get has answered; on a hit the delete is awaited next.
AfterStateGet(c, storedStateJson) ==
  IF StateMissing(storedStateJson)
    THEN Respond(c, 400, "Invalid State")
    ELSE [c EXCEPT !.pc = "delete", !.found = TRUE]

\* The invocations are interchangeable: cb is the bag of their records.
Running == BagToSet(cb)

\* Invocation c (NewCallback for an arriving request) has run on to d: it
\* awaits the store again, or it has returned its response.
Step(c, d) ==
  LET rest == IF c = NewCallback THEN cb ELSE cb (-) SetToBag({c})
  IN IF d.pc = "done"
       THEN cb' = rest /\ response' = d
       ELSE cb' = rest (+) SetToBag({d}) /\ response' = NoResponse

\* Another invocation puts `key` while x waits between its own two puts.
Overwrite(x, key) ==
  IF x.pc = "putDefault" /\ x.userId = key THEN [x EXCEPT !.overwritten = TRUE] ELSE x

\* Step(c, d) of an invocation whose step put `key`.
StepPut(c, d, key) ==
  LET rest == BagOfAll(LAMBDA x : Overwrite(x, key), cb (-) SetToBag({c}))
  IN IF d.pc = "done"
       THEN cb' = rest /\ response' = d
       ELSE cb' = rest (+) SetToBag({d}) /\ response' = NoResponse

\* A request arrives; it runs up to and including OAUTH_KV.get.
CallbackStart(code, state, error) ==
  /\ BagCardinality(cb) < MaxCallbacks
  /\ LET r == CallbackBegin(code, state, error)
         d == IF r.pc = "done" THEN r
              ELSE AfterStateGet([r EXCEPT !.gets = @ + 1], KvGet(stateKV, state))
     IN Step(NewCallback, d)
  /\ UNCHANGED <<env, issued, stateKV, tokenKV, consumed, dispatcher, call, eval>>

\* if (!env.CLICKUP_CLIENT_ID || !env.CLICKUP_CLIENT_SECRET)
CredentialsConfigured(e) == Truthy(e.CLICKUP_CLIENT_ID) /\ Truthy(e.CLICKUP_CLIENT_SECRET)

\* Lines 228-255: the delete has answered; the token-exchange fetch is sent.
AfterStateDelete(c, e) ==
  LET d == [c EXCEPT !.deleted = TRUE]
  IN IF ~CredentialsConfigured(e)
       THEN Respond(d, 500, "Configuration Error")
       ELSE [d EXCEPT !.pc = "exchange", !.exchanges = @ + 1]

\* What the fetch of the token endpoint gives: a rejection (the endpoint is
\* not reached), a non-2xx answer, or a 2xx answer with a token.
TokenResponses ==
  {[rejected |-> TRUE, ok |-> FALSE, access_token |-> ""],
   [rejected |-> FALSE, ok |-> FALSE, access_token |-> ""]} \cup
  {[rejected |-> FALSE, ok |-> TRUE, access_token |-> t] : t \in AccessTokens}

\* A handler that goes on whatever the token endpoint answered.
AfterTokenResponseUnchecked(c, tokenResponse) ==
  [c EXCEPT !.pc = "user", !.access_token = tokenResponse.access_token]

\* Lines 257-279: the token endpoint has answered; the /user fetch is sent.
AfterTokenResponse(c, tokenResponse) ==
  IF tokenResponse.rejected THEN Raise(c)
  ELSE IF ~tokenResponse.ok
    THEN Respond(c, 500, "Token Exchange Failed")
    ELSE [c EXCEPT !.pc = "user", !.access_token = tokenResponse.access_token]

\* What the fetch of the /user endpoint gives: a rejection, a non-2xx answer,
\* a 2xx answer whose body is not JSON, or a 2xx answer with a user id (0: a
\* body without one).
UserResponses ==
  {[rejected |-> TRUE, ok |-> FALSE, json |-> FALSE, id |-> 0],
   [rejected |-> FALSE, ok |-> FALSE, json |-> FALSE, id |-> 0],
   [rejected |-> FALSE, ok |-> TRUE, json |-> FALSE, id |-> 0]} \cup
  {[rejected |-> FALSE, ok |-> TRUE, json |-> TRUE, id |-> n] : n \in UserIds}

\* What the upstream gives one invocation: the /user fetch is sent only
\* after a 2xx answer of the token endpoint.
UpstreamAnswers ==
  {[token |-> tr, user |-> ur] :
     tr \in {x \in TokenResponses : x.ok}, ur \in UserResponses} \cup
  {[token |-> tr, user |-> [rejected |-> FALSE, ok |-> FALSE, json |-> FALSE, id |-> 0]] :
     tr \in {x \in TokenResponses : ~x.ok}}

\* How the lookup went: it threw (rejected fetch, or userResponse.json() on a
\* body that is not JSON), it gave a user id, or it gave none.
LookupResult(userResponse) ==
  IF userResponse.rejected \/ (userResponse.ok /\ ~userResponse.json) THEN "threw"
  ELSE IF userResponse.ok /\ userResponse.id # 0 THEN "resolved"
  ELSE "failed"

\* Lines 281-285: let userId = "default"; String(userData.user?.id || "default")
ResolveUserId(userResponse) ==
  IF userResponse.ok /\ userResponse.id # 0 THEN String(userResponse.id) ELSE "default"

\* Lines 281-296: the /user endpoint has answered; the token object is built
\* and encrypted, and the first put is awaited.
AfterUserResponse(c, userResponse, e, t, iv) ==
  LET token == [access_token |-> c.access_token, token_type |-> "Bearer", created_at |-> t]
  IN IF LookupResult(userResponse) = "threw"
       THEN Raise([c EXCEPT !.lookup = "threw"])
       ELSE [c EXCEPT !.pc = "putUser",
                      !.lookup = LookupResult(userResponse),
                      !.userId = ResolveUserId(userResponse),
                      !.encryptedToken = encryptToken(token, EncryptionKey(e), iv)]

\* A handler that deletes the state record only once the exchange succeeded.
CallbackDeleteOnSuccess(c, tokenResponse, userResponse, now, iv) ==
  /\ c.pc = "delete"
  /\ LET d1 == AfterStateDelete(c, env)
         d2 == IF d1.pc = "done" THEN d1 ELSE AfterTokenResponse(d1, tokenResponse)
         d3 == IF d2.pc = "done" THEN d2
               ELSE AfterUserResponse(d2, userResponse, env, now, iv)
     IN /\ Step(c, d3)
        /\ stateKV' = IF d3.pc = "done" THEN stateKV ELSE KvDelete(stateKV, c.state)
        /\ consumed' = IF d3.pc = "done" THEN consumed ELSE consumed \cup {c.state}
  /\ UNCHANGED <<env, issued, tokenKV, dispatcher, call, eval>>

\* A handler that stores what the token endpoint sent before it looks at
\* tokenResponse.ok.
CallbackDeleteStoring(c, tokenResponse, userResponse, now, iv) ==
  /\ c.pc = "delete"
  /\ stateKV' = KvDelete(stateKV, c.state)
  /\ consumed' = consumed \cup {c.state}
  /\ LET d1 == AfterStateDelete(c, env)
         d2 == IF d1.pc = "done" THEN d1 ELSE AfterTokenResponse(d1, tokenResponse)
         d3 == IF d2.pc = "done" THEN d2
               ELSE AfterUserResponse(d2, userResponse, env, now, iv)
         token == [access_token |-> tokenResponse.access_token, token_type |-> "Bearer",
                   created_at |-> now]
     IN /\ Step(c, d3)
        /\ tokenKV' = IF d1.pc = "done" THEN tokenKV
                      ELSE KvPut(tokenKV, "default",
                                 [value |-> encryptToken(token, EncryptionKey(env), iv),
                                  expirationTtl |-> TOKEN_TTL_SECONDS])
  /\ UNCHANGED <<env, issued, dispatcher, call, eval>>

\* OAUTH_KV.delete answers; the invocation runs on through both fetches to
\* the await of the first put (or to an error response).
CallbackDelete(c, tokenResponse, userResponse, now, iv) ==
  /\ c.pc = "delete"
  /\ stateKV' = KvDelete(stateKV, c.state)
  /\ consumed' = consumed \cup {c.state}
  /\ LET d1 == AfterStateDelete(c, env)
         d2 == IF d1.pc = "done" THEN d1 ELSE AfterTokenResponse(d1, tokenResponse)
         d3 == IF d2.pc = "done" THEN d2
               ELSE AfterUserResponse(d2, userResponse, env, now, iv)
     IN Step(c, d3)
  /\ UNCHANGED <<env, issued, tokenKV, dispatcher, call, eval>>

\* Lines 298-300: OAUTH_KV.put(oauth_token:<userId>, encryptedToken, ttl)
CallbackPutUser(c) ==
  /\ c.pc = "putUser"
  /\ tokenKV' = KvPut(tokenKV, c.userId,
                      [value |-> c.encryptedToken, expirationTtl |-> TOKEN_TTL_SECONDS])
  /\ StepPut(c, [c EXCEPT !.pc = "putDefault", !.writes = @ + 1], c.userId)
  /\ UNCHANGED <<env, issued, stateKV, consumed, dispatcher, call, eval>>

\* Lines 303-360: OAUTH_KV.put(oauth_token:default, ...), then the success page.
CallbackPutDefault(c) ==
  /\ c.pc = "putDefault"
  /\ tokenKV' = KvPut(tokenKV, "default",
                      [value |-> c.encryptedToken, expirationTtl |-> TOKEN_TTL_SECONDS])
  /\ StepPut(c, Respond([c EXCEPT !.writes = @ + 1], 200, "Connected"), "default")
  /\ UNCHANGED <<env, issued, stateKV, consumed, dispatcher, call, eval>>

\* ------------------------------------------------ handleStatus, handleLogout
\* hasValidToken: token !== null
hasValidToken(store, e, userId) == getStoredToken(store, e, userId) # NoToken

\* A status body that carries the stored access token itself.
StatusResponseWithToken(store, e) ==
  [handler |-> "status", status |-> 200,
   authenticated |-> getStoredToken(store, e, "default"),
   oauth_configured |-> Truthy(e.CLICKUP_CLIENT_ID) /\ Truthy(e.CLICKUP_CLIENT_SECRET),
   fallback_token |-> Truthy(e.CLICKUP_API_TOKEN)]

\* The JSON body handleStatus returns, with the default status 200.
StatusResponse(store, e) ==
  [handler |-> "status", status |-> 200,
   authenticated |-> hasValidToken(store, e, "default"),
   oauth_configured |-> Truthy(e.CLICKUP_CLIENT_ID) /\ Truthy(e.CLICKUP_CLIENT_SECRET),
   fallback_token |-> Truthy(e.CLICKUP_API_TOKEN)]

\* handleStatus reads the default key and writes nothing.
HandleStatus ==
  /\ response' = StatusResponse(tokenKV, env)
  /\ UNCHANGED <<env, issued, stateKV, tokenKV, cb, consumed, dispatcher, call, eval>>

\* A logout that deletes every token key.
LogoutRevokingAll ==
  /\ tokenKV' = [k \in TokenKeys |-> Absent]
  /\ response' = [handler |-> "logout", status |-> 200, body |-> "success"]
  /\ UNCHANGED <<env, issued, stateKV, cb, consumed, dispatcher, call, eval>>

\* A logout that revokes nothing.
LogoutWithoutRevoke ==
  /\ response' = [handler |-> "logout", status |-> 200, body |-> "success"]
  /\ UNCHANGED <<env, issued, stateKV, tokenKV, cb, consumed, dispatcher, call, eval>>

\* handleLogout: revokeToken(env) deletes the default key, then success.
HandleLogout ==
  /\ tokenKV' = KvDelete(tokenKV, "default")
  /\ response' = [handler |-> "logout", status |-> 200, body |-> "success"]
  /\ UNCHANGED <<env, issued, stateKV, cb, consumed, dispatcher, call, eval>>

\* --------------------------------------------------------------------- time
\* STATE_TTL_SECONDS after its put, a state record is gone from the store.
\* (TOKEN_TTL_SECONDS, a year, does not pass within a behaviour.)
ExpireState(key) ==
  /\ stateKV[key] # Absent
  /\ stateKV' = KvExpire(stateKV, key)
  /\ response' = NoResponse
  /\ UNCHANGED <<env, issued, tokenKV, cb, consumed, dispatcher, call, eval>>

\* ------------------------------------------------------------ tool schemas
\* An argument as the handler receives it: JSON of some primitive type, or
\* undefined.
Missing == [t |-> "undefined"]
Str(v) == [t |-> "string", v |-> v]
Num(v) == [t |-> "number", v |-> v]
Bool(v) == [t |-> "boolean", v |-> v]
\* An array whose elements are all of one primitive type.
Arr(of) == [t |-> "array", of |-> of]

\* z.enum(["created", "updated", "id", "due_date"])
OrderByOptions == {"created", "updated", "id", "due_date"}

\* CLICKUP_CONFIG
TEAM_ID == "8472392"
LIST_ID == "176135389"

\* z.<type>(), z.<type>().optional(), z.<type>().optional().default(d)
Required(name, type) == [name |-> name, type |-> type, required |-> TRUE, default |-> Missing]
Optional(name, type) == [name |-> name, type |-> type, required |-> FALSE, default |-> Missing]
Default(name, type, d) == [name |-> name, type |-> type, required |-> FALSE, default |-> d]

\* The schemas, each with the fields below; the fields left out are optional
\* and absent from every call.
listTasksSchema ==
  {Optional("list_id", "string"), Default("page", "number", Num(0)),
   Optional("order_by", "enum")}
getTaskSchema ==
  {Required("task_id", "string"), Default("team_id", "string", Str(TEAM_ID))}
createTaskSchema ==
  {Required("name", "string"), Default("list_id", "string", Str(LIST_ID)),
   Optional("priority", "number"), Default("notify_all", "boolean", Bool(TRUE))}
updateTaskSchema ==
  {Required("task_id", "string"), Optional("name", "string"),
   Optional("priority", "number")}
postCommentSchema ==
  {Required("task_id", "string"), Required("comment_text", "string"),
   Optional("assignee", "number"), Default("notify_all", "boolean", Bool(TRUE))}
getCommentsSchema == {Required("task_id", "string")}
getListCustomFieldsSchema == {Optional("list_id", "string")}
setCustomFieldSchema ==
  {Required("task_id", "string"), Required("field_id", "string"),
   Required("value", "union")}
createDocSchema ==
  {Required("name", "string"), Default("workspace_id", "string", Str(TEAM_ID)),
   Optional("content", "string")}
getDocSchema == {Required("doc_id", "string")}
updatePageSchema == {Required("page_id", "string"), Required("content", "string")}

\* The switch on tool.name / the schema each handler parses with.
SchemaOf(tool) ==
  CASE tool = "list_tasks" -> listTasksSchema
    [] tool = "get_task" -> getTaskSchema
    [] tool = "create_task" -> createTaskSchema
    [] tool = "update_task" -> updateTaskSchema
    [] tool = "post_comment" -> postCommentSchema
    [] tool = "get_comments" -> getCommentsSchema
    [] tool = "get_list_custom_fields" -> getListCustomFieldsSchema
    [] tool = "set_custom_field" -> setCustomFieldSchema
    [] tool = "create_doc" -> createDocSchema
    [] tool = "get_doc" -> getDocSchema
    [] tool = "update_page" -> updatePageSchema

FieldNames(tool) == {f.name : f \in SchemaOf(tool)}

\* zod's check of one present value against a field's type.
TypeOk(f, v) ==
  CASE f.type = "string" -> v.t = "string"
    [] f.type = "number" -> v.t = "number"
    [] f.type = "enum" -> v.t = "string" /\ v.v \in OrderByOptions
    [] f.type = "boolean" -> v.t = "boolean"
    [] f.type = "union" ->
         v.t \in {"string", "number", "boolean"} \/ (v.t = "array" /\ v.of = "string")

\* schema.parse(args) does not throw.
SchemaAccepts(tool, args) ==
  \A f \in SchemaOf(tool) :
    IF args[f.name] = Missing THEN ~f.required ELSE TypeOk(f, args[f.name])

\* A parse that fills in no default.
ParsedNoDefaults(tool, args) == args

\* The parsed value: the arguments with the defaults filled in.
Parsed(tool, args) ==
  [n \in FieldNames(tool) |->
     LET f == CHOOSE g \in SchemaOf(tool) : g.name = n
     IN IF args[n] = Missing THEN f.default ELSE args[n]]

\* A computation ends with a value or with a thrown Error.
Returned(value) == [threw |-> FALSE, value |-> value]
Threw(message) == [threw |-> TRUE, message |-> message]

\* A parse that lets anything through.
ParseUnchecked(tool, args) == Returned(Parsed(tool, args))

\* schema.parse(args): the parsed value, or a ZodError.
ParseArgs(tool, args) ==
  IF SchemaAccepts(tool, args) THEN Returned(Parsed(tool, args)) ELSE Threw("ZodError")

\* --------------------------------------------------------- client functions
\* `${x}` in a template literal.
Interpolate(v) ==
  CASE v.t = "string" -> v.v
    [] v.t = "number" -> String(v.v)
    [] OTHER -> "undefined"

\* A client that ignores the caller's id.
AlwaysFallback(v, fallback) == fallback

\* args.x || fallback
OrElse(v, fallback) ==
  IF v.t = "undefined" \/ (v.t = "string" /\ v.v = "") \/ (v.t = "number" /\ v.v = 0)
    THEN fallback ELSE Interpolate(v)

\* JSON.stringify of an object with the given keys of a: keys whose value is
\* undefined are left out.
JsonBody(a, keys) == [k \in {n \in keys : a[n] # Missing} |-> a[k]]
NoBody == [none |-> TRUE]

\* The one fetch of each client function: method, path under API_URL, the
\* Authorization header and the body.
Request(tool, a, apiToken) ==
  LET r(method, path, body) ==
        [method |-> method, path |-> path, Authorization |-> apiToken, body |-> body]
  IN CASE tool = "list_tasks" ->
            r("GET", <<"list", OrElse(a.list_id, LIST_ID), "task">>, NoBody)
       [] tool = "get_task" -> r("GET", <<"task", Interpolate(a.task_id)>>, NoBody)
       [] tool = "create_task" ->
            r("POST", <<"list", OrElse(a.list_id, LIST_ID), "task">>,
              JsonBody(a, DOMAIN a))
       [] tool = "update_task" ->
            r("PUT", <<"task", Interpolate(a.task_id)>>,
              JsonBody(a, DOMAIN a \ {"task_id"}))
       [] tool = "post_comment" ->
            r("POST", <<"task", Interpolate(a.task_id), "comment">>,
              JsonBody(a, {"comment_text", "assignee", "notify_all"}))
       [] tool = "get_comments" ->
            r("GET", <<"task", Interpolate(a.task_id), "comment">>, NoBody)
       [] tool = "get_list_custom_fields" ->
            r("GET", <<"list", OrElse(a.list_id, LIST_ID), "field">>, NoBody)
       [] tool = "set_custom_field" ->
            r("POST", <<"task", Interpolate(a.task_id), "field", Interpolate(a.field_id)>>,
              JsonBody(a, {"value"}))
       [] tool = "create_doc" ->
            r("POST", <<"workspace", OrElse(a.workspace_id, TEAM_ID), "doc">>,
              JsonBody(a, {"name"}))
       [] tool = "get_doc" -> r("GET", <<"doc", Interpolate(a.doc_id)>>, NoBody)
       [] tool = "update_page" ->
            r("PUT", <<"page", Interpolate(a.page_id)>>, JsonBody(a, {"content"}))

\* What comes back from fetch: a rejected promise (network failure), or a
\* response with a status and a body that is JSON or is not.
Statuses == {200, 401, 500}
\* What response.text() gives for the body of an answer that is not 2xx.
BodyTexts == {"", "{\"err\":\"Team not found\",\"ECODE\":\"OAUTH_027\"}"}

FetchOutcomes ==
  {[kind |-> "rejected", status |-> 0, json |-> FALSE, text |-> ""]} \cup
  {[kind |-> "response", status |-> st, json |-> j, text |-> ""] :
     st \in {x \in Statuses : x \in 200..299}, j \in BOOLEAN} \cup
  {[kind |-> "response", status |-> st, json |-> FALSE, text |-> b] :
     st \in {x \in Statuses : x \notin 200..299}, b \in BodyTexts}

\* response.ok
Ok(outcome) == outcome.status \in 200..299

\* A client whose error message names the status and leaves out the body.
ClientResultStatusOnly(tool, outcome) ==
  IF outcome.kind = "rejected" THEN Threw([error |-> "fetch failed", status |-> 0])
  ELSE IF ~Ok(outcome)
    THEN Threw([error |-> "ClickUp API error", status |-> outcome.status, text |-> ""])
  ELSE IF ~outcome.json THEN Threw([error |-> "SyntaxError", status |-> 0])
  ELSE Returned([tool |-> tool, status |-> outcome.status])

\* The client function from the answer of its fetch to its return or throw:
\* `ClickUp API error: ${response.status} ${await response.text()}`
ClientResult(tool, outcome) ==
  IF outcome.kind = "rejected" THEN Threw([error |-> "fetch failed", status |-> 0])
  ELSE IF ~Ok(outcome)
    THEN Threw([error |-> "ClickUp API error", status |-> outcome.status,
                text |-> outcome.text])
  ELSE IF ~outcome.json THEN Threw([error |-> "SyntaxError", status |-> 0])
  ELSE Returned([tool |-> tool, status |-> outcome.status])

\* Nothing has been evaluated.
NoEval == [fn |-> "none"]

\* -------------------------------------------------------------- dispatchers
\* MyMCP and ClickUpMCP of index.ts, and the ClickUpMCP with the token check.
Dispatchers == {"MyMCP", "ClickUpMCP (authless)", "ClickUpMCP"}

taskTools == {"list_tasks", "get_task", "create_task", "update_task"}
commentTools == {"post_comment", "get_comments"}
customFieldTools == {"get_list_custom_fields", "set_custom_field"}
docTools == {"create_doc", "get_doc", "update_page"}

\* The tools init() registers.
Tools(d) ==
  CASE d = "MyMCP" -> taskTools \cup commentTools \cup customFieldTools
    [] d = "ClickUpMCP (authless)" -> taskTools
    [] d = "ClickUpMCP" -> taskTools \cup commentTools \cup customFieldTools \cup docTools

\* if (!token) return { ... isError: true } in front of the try block
HasTokenCheck(d) == d = "ClickUpMCP"

\* this.env.CLICKUP_API_TOKEN || ""
ResolveToken(e) == IF Truthy(e.CLICKUP_API_TOKEN) THEN e.CLICKUP_API_TOKEN ELSE ""

NoRequest == [method |-> "none", path |-> << >>, Authorization |-> "", body |-> NoBody]
NoOutcome == [kind |-> "none", status |-> 0, json |-> FALSE, text |-> ""]
NoReply == [isError |-> FALSE, text |-> [none |-> TRUE]]

\* The handler is registered and has not been called.
NoCall ==
  [pc |-> "awaiting-call", tool |-> "none", args |-> << >>, request |-> NoRequest,
   requests |-> 0, outcome |-> NoOutcome, responses |-> 0, escaped |-> FALSE,
   reply |-> NoReply]

\* return { content: [{ type: "text", text }], isError }
Reply(c, isError, text) ==
  [c EXCEPT !.pc = "responded", !.responses = @ + 1,
            !.reply = [isError |-> isError, text |-> text]]

\* A handler without the try/catch: the exception goes to the caller.
HandlerRethrow(c, r) ==
  IF r.threw
    THEN [c EXCEPT !.pc = "responded", !.escaped = TRUE]
    ELSE Reply(c, FALSE, [json |-> r.value])

\* try { ... return success } catch (e) { return `Error: ${e.message}` }
HandlerReturn(c, r) ==
  IF r.threw
    THEN Reply(c, TRUE, [error |-> r.message])
    ELSE Reply(c, FALSE, [json |-> r.value])

\* The handler from its call to the await of the client's fetch.
HandlerEntry(d, e, tool, args) ==
  LET c == [NoCall EXCEPT !.tool = tool, !.args = args]
      token == ResolveToken(e)
  IN IF HasTokenCheck(d) /\ ~Truthy(token)
       THEN Reply(c, TRUE, [error |-> "No ClickUp API token configured"])
       ELSE LET p == ParseArgs(tool, args)
            IN IF p.threw
                 THEN HandlerReturn(c, Threw([error |-> p.message, status |-> 0]))
                 ELSE [c EXCEPT !.pc = "fetching",
                                !.request = Request(tool, p.value, token),
                                !.requests = @ + 1]

\* A client that sends the request again when the answer is not 2xx.
AfterFetchRetry(c, outcome) ==
  IF outcome.kind = "response" /\ ~Ok(outcome)
    THEN [c EXCEPT !.requests = @ + 1]
    ELSE HandlerReturn([c EXCEPT !.outcome = outcome], ClientResult(c.tool, outcome))

\* The fetch has answered: the client returns or throws, the handler replies.
AfterFetch(c, outcome) ==
  HandlerReturn([c EXCEPT !.outcome = outcome], ClientResult(c.tool, outcome))

\* Values a caller can put under an argument name.
ArgValues == {Missing, Str("abc"), Str("created"), Num(7)}
ArgsOf(tool) == [FieldNames(tool) -> ArgValues]

\* An MCP client calls a tool.
ToolCall(tool, args) ==
  /\ call.pc = "awaiting-call"
  /\ tool \in Tools(dispatcher)
  /\ call' = HandlerEntry(dispatcher, env, tool, args)
  /\ UNCHANGED <<env, issued, stateKV, tokenKV, cb, consumed, response, dispatcher, eval>>

\* A handler that keeps the last upstream answer in the key-value store.
ToolFetchAnswerCaching(outcome) ==
  /\ call.pc = "fetching"
  /\ call' = AfterFetch(call, outcome)
  /\ tokenKV' = KvPut(tokenKV, "default", [value |-> outcome, expirationTtl |-> 0])
  /\ UNCHANGED <<env, issued, stateKV, cb, consumed, response, dispatcher, eval>>

\* The upstream answers the client's fetch.
ToolFetchAnswer(outcome) ==
  /\ call.pc = "fetching"
  /\ call' = AfterFetch(call, outcome)
  /\ UNCHANGED <<env, issued, stateKV, tokenKV, cb, consumed, response, dispatcher, eval>>

\* The reply is with the MCP client; the handler awaits its next call.
ToolAwaitNext ==
  /\ call.pc = "responded"
  /\ call' = NoCall
  /\ UNCHANGED <<env, issued, stateKV, tokenKV, cb, consumed, response, dispatcher, eval>>

\* ------------------------------------------------------------ specification
\* The query parameters of the callback requests: a code and a nonce; the
\* same with an error parameter; one without the code; one without the
\* state; one with the error parameter alone.
CallbackRequests ==
  {[code |-> c, state |-> k, error |-> e] :
     c \in Codes, k \in StateKeys, e \in ErrorParams \cup {NoParam}} \cup
  {[code |-> NoParam, state |-> k, error |-> NoParam] : k \in StateKeys} \cup
  {[code |-> c, state |-> NoParam, error |-> NoParam] : c \in Codes} \cup
  {[code |-> NoParam, state |-> NoParam, error |-> e] : e \in ErrorParams}

Init ==
  /\ dispatcher = "ClickUpMCP"
  /\ call = NoCall
  /\ eval = NoEval
  /\ env \in OAuthEnvs
  /\ issued = 0
  /\ stateKV = [k \in StateKeys |-> Absent]
  /\ tokenKV = [k \in TokenKeys |-> Absent]
  /\ cb = EmptyBag
  /\ consumed = {}
  /\ response = NoResponse

Next ==
  \/ HandleAuthorize
  \/ \E r \in CallbackRequests : CallbackStart(r.code, r.state, r.error)
  \/ \E c \in Running, a \in UpstreamAnswers, t \in Timestamps, iv \in IVs :
        CallbackDelete(c, a.token, a.user, t, iv)
  \/ \E c \in Running : CallbackPutUser(c)
  \/ \E c \in Running : CallbackPutDefault(c)
  \/ HandleLogout
  \/ \E k \in StateKeys : ExpireState(k)

Spec == Init /\ [][Next]_vars

\* The tool dispatcher of a deployed Worker.  OAUTH_KV is as the OAuth
\* handlers can have left it: empty, or holding the token of a callback.
ToolEnvs ==
  {e \in Envs : e.CLICKUP_CLIENT_ID # "" /\ e.CLICKUP_CLIENT_SECRET # ""}

StoreAfterCallback(e, access_token, userId, now, iv) ==
  LET token == [access_token |-> access_token, token_type |-> "Bearer", created_at |-> now]
      record == [value |-> encryptToken(token, EncryptionKey(e), iv),
                 expirationTtl |-> TOKEN_TTL_SECONDS]
  IN [k \in TokenKeys |-> IF k \in {userId, "default"} THEN record ELSE Absent]

TokenStores(e) ==
  {[k \in TokenKeys |-> Absent]} \cup
  {StoreAfterCallback(e, t, "101", now, iv) :
     t \in AccessTokens, now \in Timestamps, iv \in IVs}

ToolsInit ==
  /\ env \in ToolEnvs
  /\ issued = 0
  /\ stateKV = [k \in StateKeys |-> Absent]
  /\ tokenKV \in TokenStores(env)
  /\ cb = EmptyBag
  /\ consumed = {}
  /\ response = NoResponse
  /\ dispatcher \in Dispatchers
  /\ call = NoCall
  /\ eval = NoEval

ToolsNext ==
  \/ \E tool \in Tools(dispatcher) : \E args \in ArgsOf(tool) : ToolCall(tool, args)
  \/ \E outcome \in FetchOutcomes : ToolFetchAnswer(outcome)
  \/ ToolAwaitNext

SpecTools == ToolsInit /\ [][ToolsNext]_vars

\* ------------------------------------------------------- OAuth properties
\* The handleCallback invocations on record: those in flight, and the one
\* that has just returned.
Callbacks == Running \cup (IF response.handler = "callback" THEN {response} ELSE {})

\* C1: of the handleCallback invocations that carry the same nonce and run
\* concurrently, at most one finds the state record and sends the
\* token-exchange request.
AtMostOneExchangePerNonce ==
  \A c \in Running, d \in Running :
    (c.exchanges >= 1 /\ d.exchanges >= 1 /\ c.state = d.state)
      => (c = d /\ cb[c] = 1)

\* C2: an invocation that starts after a callback has found and deleted the
\* state record of its nonce returns 400 without a token exchange or a token
\* write; with a code and no error parameter the error is "Invalid State".
ReplayRejected ==
  \A c \in Callbacks :
    c.nonce = "consumed" =>
      /\ c.pc = "done" /\ c.status = 400
      /\ ~c.found /\ c.exchanges = 0 /\ c.writes = 0
      /\ c.wellFormed => c.body = "Invalid State"

ReplayRejectedWitness ==
  /\ response.handler = "callback"
  /\ response.nonce = "consumed" /\ response.wellFormed
  /\ response.body = "Invalid State" /\ response.exchanges = 0

\* C3: an invocation with a code and a nonce whose state record is not
\* stored (never issued, or expired) returns "Invalid State" (400), sends no
\* token exchange and writes no token record.
UnknownStateRejected ==
  \A c \in Callbacks :
    (c.wellFormed /\ c.nonce \in {"never issued", "expired"}) =>
      /\ c.pc = "done" /\ c.status = 400 /\ c.body = "Invalid State"
      /\ ~c.found /\ c.exchanges = 0 /\ c.writes = 0

UnknownStateRejectedWitness ==
  /\ response.handler = "callback"
  /\ response.nonce = "expired" /\ response.wellFormed
  /\ response.body = "Invalid State" /\ response.writes = 0

\* C4 as stated: an invocation that found the state record deletes it
\* before the token exchange, and has sent exactly one token exchange when
\* it returns.
ExactlyOneExchangeWhenFound ==
  \A c \in Callbacks :
    c.found =>
      /\ c.exchanges >= 1 => c.deleted
      /\ c.pc = "done" => c.exchanges = 1

\* C4 amended: an invocation that found the state record deletes it before
\* the token exchange and sends at most one; once the delete has answered
\* it has sent exactly one if client id and secret are both configured,
\* and none (Configuration Error) otherwise.
DeleteThenAtMostOneExchange ==
  \A c \in Callbacks :
    c.found =>
      /\ c.exchanges >= 1 => c.deleted
      /\ c.exchanges <= 1
      /\ c.pc # "delete" =>
           /\ c.deleted
           /\ c.exchanges = 1 <=> CredentialsConfigured(env)
           /\ c.exchanges = 0 => (c.status = 500 /\ c.body = "Configuration Error")

DeleteThenAtMostOneExchangeWitness ==
  /\ response.handler = "callback"
  /\ response.found /\ response.deleted /\ response.exchanges = 1

\* C5 as stated: when a callback with a successful token exchange has
\* returned, both the user key and the default key hold a record, and
\* getStoredToken on each returns the exchanged access token.
BothKeysHoldExchangedToken ==
  (response.handler = "callback" /\ response.status = 200) =>
    /\ tokenKV[response.userId] # Absent
    /\ tokenKV["default"] # Absent
    /\ getStoredToken(tokenKV, env, response.userId) = response.access_token
    /\ getStoredToken(tokenKV, env, "default") = response.access_token

\* C5 amended: when such a callback has returned, both keys hold a record
\* that decrypts; the default key returns the exchanged access token, and so
\* does the user key unless another invocation put that key between this
\* invocation's two puts.
DefaultKeyHoldsExchangedToken ==
  (response.handler = "callback" /\ response.status = 200) =>
    /\ tokenKV[response.userId] # Absent
    /\ tokenKV["default"] # Absent
    /\ getStoredToken(tokenKV, env, "default") = response.access_token
    /\ getStoredToken(tokenKV, env, response.userId) # NoToken
    /\ ~response.overwritten =>
         getStoredToken(tokenKV, env, response.userId) = response.access_token

DefaultKeyHoldsExchangedTokenWitness ==
  /\ response.handler = "callback" /\ response.status = 200
  /\ response.userId = "101" /\ ~response.overwritten
  /\ getStoredToken(tokenKV, env, "101") = "tokB"
  /\ getStoredToken(tokenKV, env, "default") = "tokB"

\* --------------------------------------------------- dispatcher properties
\* getStoredToken(env): the stored OAuth token under the default key.
StoredOAuthToken == getStoredToken(tokenKV, env, "default")

\* The handler got past `if (!token)`, where the dispatcher has that check.
PassedCredentialCheck ==
  call.pc # "awaiting-call" /\ (HasTokenCheck(dispatcher) => Truthy(ResolveToken(env)))

\* C6: with neither a stored OAuth token nor CLICKUP_API_TOKEN, a tool
\* invocation sends no HTTP request and its reply is flagged isError.
NoCredentialNoRequest ==
  (StoredOAuthToken = NoToken /\ ~Truthy(env.CLICKUP_API_TOKEN)) =>
    /\ call.requests = 0
    /\ call.pc = "responded" => call.reply.isError

\* C7: the credential a tool invocation passes to its client function is the
\* stored OAuth token when there is one, and CLICKUP_API_TOKEN otherwise.
CredentialPrefersStoredToken ==
  call.requests >= 1 =>
    call.request.Authorization =
      (IF StoredOAuthToken # NoToken THEN StoredOAuthToken ELSE env.CLICKUP_API_TOKEN)

\* C8: a tool invocation replies at most once and exactly once when it is
\* over; the reply is a success text or an isError text with the message of
\* the error; no error of the parse or of the client escapes the handler.
ExactlyOneReply ==
  /\ ~call.escaped
  /\ call.pc \in {"awaiting-call", "fetching", "responded"}
  /\ call.pc # "responded" => call.responses = 0
  /\ call.pc = "responded" =>
       /\ call.responses = 1
       /\ IF call.reply.isError
            THEN DOMAIN call.reply.text = {"error"}
            ELSE call.reply.text = [json |-> [tool |-> call.tool, status |-> call.outcome.status]]
       /\ (call.requests = 1 /\ ~(Ok(call.outcome) /\ call.outcome.json)) =>
            (call.reply.isError /\ call.reply.text.error.error
               \in {"fetch failed", "ClickUp API error", "SyntaxError"})

ExactlyOneReplyWitness ==
  /\ call.pc = "responded" /\ call.responses = 1
  /\ call.requests = 1 /\ call.outcome.kind = "rejected"
  /\ call.reply.isError /\ call.reply.text.error.error = "fetch failed"

\* C9: arguments the tool's schema rejects end in an isError reply with no
\* HTTP request sent; a request is only ever sent for accepted arguments.
InvalidArgsNoRequest ==
  /\ call.requests >= 1 => SchemaAccepts(call.tool, call.args)
  /\ (call.pc = "responded" /\ ~SchemaAccepts(call.tool, call.args)) =>
       (call.reply.isError /\ call.requests = 0)

InvalidArgsNoRequestWitness ==
  /\ call.pc = "responded" /\ call.tool = "list_tasks"
  /\ call.args.order_by = Str("abc")
  /\ call.reply.isError /\ call.reply.text.error.error = "ZodError"
  /\ call.requests = 0

\* C10: an invocation past the credential check with accepted arguments has
\* sent exactly one HTTP request, also when the answer was not 2xx, and then
\* its reply reports the failure with the status.
ExactlyOneRequest ==
  (PassedCredentialCheck /\ SchemaAccepts(call.tool, call.args)) =>
    /\ call.requests = 1
    /\ (call.pc = "responded" /\ call.outcome.kind = "response" /\ ~Ok(call.outcome)) =>
         /\ call.reply.isError
         /\ call.reply.text.error.error = "ClickUp API error"
         /\ call.reply.text.error.status = call.outcome.status

ExactlyOneRequestWitness ==
  /\ call.pc = "responded" /\ PassedCredentialCheck
  /\ call.requests = 1 /\ call.outcome.status = 500
  /\ call.reply.isError

\* C21: when the upstream answers a tool's request with a status that is not
\* 2xx, the invocation's reply is flagged isError, its message carries that
\* status code and the body text of the answer unchanged, and it carries no
\* success payload.
UpstreamFailureReported ==
  (call.pc = "responded" /\ call.outcome.kind = "response" /\ ~Ok(call.outcome)) =>
    /\ call.reply.isError
    /\ DOMAIN call.reply.text = {"error"}
    /\ call.reply.text.error.status = call.outcome.status
    /\ call.reply.text.error.text = call.outcome.text

UpstreamFailureReportedWitness ==
  /\ call.pc = "responded" /\ call.tool = "set_custom_field"
  /\ call.outcome.status = 401 /\ call.outcome.text # ""
  /\ call.reply.isError /\ call.reply.text.error.text = call.outcome.text

\* ------------------------------------------------------ listTasks, the result
\* Size of the largest upstream page.
MaxPage == 102

DEFAULT_LIMIT == 20
MAX_LIMIT == 100

\* A JavaScript number: the integer v, or v + 0.5 when marked half.
NumHalf(v) == [t |-> "number", v |-> v, half |-> TRUE]
IsHalf(x) == "half" \in DOMAIN x

\* Twice the number, an integer: the order of numbers is the order of these.
Twice(x) == 2 * x.v + (IF IsHalf(x) THEN 1 ELSE 0)

\* x || fallback, for a number or undefined
NumberOrElse(x, fallback) ==
  IF x.t = "undefined" \/ Twice(x) = 0 THEN fallback ELSE x

\* Math.min(a, b)
MathMin(a, b) == IF Twice(a) <= Twice(b) THEN a ELSE b

\* ToIntegerOrInfinity: truncation towards zero.
ToInteger(x) ==
  IF ~IsHalf(x) THEN x.v ELSE IF x.v >= 0 THEN x.v ELSE x.v + 1

\* Array.prototype.slice(0, end)
ArraySlice(arr, end) ==
  LET relativeEnd == ToInteger(end)
      final == IF relativeEnd < 0
                 THEN (IF Len(arr) + relativeEnd < 0 THEN 0 ELSE Len(arr) + relativeEnd)
                 ELSE (IF relativeEnd < Len(arr) THEN relativeEnd ELSE Len(arr))
  IN SubSeq(arr, 1, final)

\* The i-th task of an upstream page, with fields the summary drops.
UpstreamTask(i) ==
  [id |-> i, name |-> "task", status |-> [status |-> "to do", color |-> "#d3d3d3"],
   priority |-> [priority |-> "high"], due_date |-> "1764460800000",
   assignees |-> <<[username |-> "ann", email |-> "ann@example.com"]>>,
   description |-> "text", custom_fields |-> << >>]

\* The body of the upstream answer: { tasks: [...] }, or an object without tasks.
UpstreamPage(n) == [tasks |-> [i \in 1..n |-> UpstreamTask(i)]]
NoTasksPage == [err |-> "none"]

\* The map callback of listTasks.
TrimTask(task) ==
  [id |-> task.id, name |-> task.name, status |-> task.status.status,
   priority |-> task.priority.priority, due_date |-> task.due_date,
   assignees |-> [k \in DOMAIN task.assignees |-> task.assignees[k].username]]

\* Math.min(args.limit || 20, 100)
EffectiveLimit(limit) == MathMin(NumberOrElse(limit, Num(DEFAULT_LIMIT)), Num(MAX_LIMIT))

\* A summary that trims the whole page and ignores the limit.
listTasksResultUncapped(limit, data) ==
  LET page == IF "tasks" \in DOMAIN data THEN data.tasks ELSE << >>
      tasks == [k \in DOMAIN page |-> TrimTask(page[k])]
  IN [total |-> Len(page), returned |-> Len(tasks), tasks |-> tasks]

\* listTasks from `const data = await response.json()` to its return;
\* limit is args.limit after the parse (20 when the caller omitted it).
listTasksResult(limit, data) ==
  LET page == IF "tasks" \in DOMAIN data THEN data.tasks ELSE << >>
      cut == ArraySlice(page, EffectiveLimit(limit))
      tasks == [k \in DOMAIN cut |-> TrimTask(cut[k])]
  IN [total |-> Len(page), returned |-> Len(tasks), tasks |-> tasks]

\* Values of `limit` the schema accepts (z.number().optional().default(20)).
LimitValues ==
  {Missing, Num(-2), Num(-1), NumHalf(-1), Num(0), NumHalf(0), Num(1), Num(2),
   NumHalf(2), Num(5), Num(20), Num(100), NumHalf(100), Num(101), Num(250)}

UpstreamPages == {UpstreamPage(n) : n \in 0..MaxPage} \cup {NoTasksPage}

\* listTasks on a call's limit and the upstream's answer.
EvalListTasks(limit, data) ==
  /\ eval.fn = "none"
  /\ eval' = [fn |-> "listTasks", limit |-> limit, data |-> data,
               result |-> listTasksResult(
                            IF limit = Missing THEN Num(DEFAULT_LIMIT) ELSE limit, data)]
  /\ UNCHANGED <<env, issued, stateKV, tokenKV, cb, consumed, response, dispatcher, call>>

\* The custom fields of the upstream list, each with its declared type.
UpstreamFieldType(field_id) ==
  CASE field_id = "fld-number" -> "number"
    [] field_id = "fld-text" -> "short_text"
    [] field_id = "fld-done" -> "checkbox"
    [] OTHER -> "unknown"

\* Values a caller can put under a field, by the field's name and type.
FieldValues(f) ==
  CASE f.name = "field_id" ->
         {Missing, Str("fld-number"), Str("fld-text"), Str("fld-done")}
    [] f.type = "string" -> {Missing, Str("abc"), Str(""), Num(7)}
    [] f.type = "number" -> {Missing, Num(7), Str("abc")}
    [] f.type = "boolean" -> {Missing, Bool(TRUE), Bool(FALSE), Str("abc")}
    [] f.type = "enum" -> {Missing, Str("created"), Str("abc")}
    [] f.type = "union" ->
         {Missing, Str("abc"), Num(7), Bool(TRUE), Arr("string"), Arr("number")}

ClientArgs(tool) ==
  {a \in [FieldNames(tool) -> UNION {FieldValues(f) : f \in SchemaOf(tool)}] :
     \A f \in SchemaOf(tool) : a[f.name] \in FieldValues(f)}

\* Tools whose request depends on a default or carries a typed value.
ClientTools ==
  {"list_tasks", "create_task", "get_list_custom_fields", "post_comment",
   "set_custom_field"}

\* The parse of a call's arguments and, when it passes, the client's request.
EvalRequest(tool, args) ==
  /\ eval.fn = "none"
  /\ LET p == ParseArgs(tool, args)
     IN eval' = [fn |-> "request", tool |-> tool, args |-> args, accepted |-> ~p.threw,
                 request |-> IF p.threw THEN NoRequest
                                        ELSE Request(tool, p.value, "pk_static")]
  /\ UNCHANGED <<env, issued, stateKV, tokenKV, cb, consumed, response, dispatcher, call>>

ClientNext ==
  \/ \E limit \in LimitValues, data \in UpstreamPages : EvalListTasks(limit, data)
  \/ \E tool \in ClientTools : \E args \in ClientArgs(tool) : EvalRequest(tool, args)

SpecClient == Init /\ [][ClientNext]_vars

\* ----------------------------------------------------- listTasks properties
\* The limit a call asks for: the supplied value, or the default 20.
RequestedLimit == IF eval.limit = Missing THEN Num(DEFAULT_LIMIT) ELSE eval.limit

\* Length of the upstream page.
PageLength == IF "tasks" \in DOMAIN eval.data THEN Len(eval.data.tasks) ELSE 0

\* C11: for every accepted limit and every upstream page,
\* returned <= min(limit, 100) and returned <= total.
ReturnedWithinLimit ==
  eval.fn = "listTasks" =>
    /\ 2 * eval.result.returned <= Twice(MathMin(RequestedLimit, Num(MAX_LIMIT)))
    /\ eval.result.returned <= eval.result.total

\* The smallest of a non-empty set of integers.
Least(S) == CHOOSE m \in S : \A k \in S : m <= k

\* The first n tasks of the upstream page, in upstream order, each with the
\* six fields of the summary and no other.
FirstTrimmed(n) ==
  /\ DOMAIN eval.result.tasks = 1..n
  /\ \A k \in 1..n :
       /\ DOMAIN eval.result.tasks[k] =
            {"id", "name", "status", "priority", "due_date", "assignees"}
       /\ eval.result.tasks[k] = TrimTask(eval.data.tasks[k])

ListRequestSent ==
  /\ eval.fn = "request" /\ eval.accepted
  /\ eval.tool \in {"list_tasks", "create_task", "get_list_custom_fields"}

\* C13 as stated: the list id in the request path is the caller's list_id
\* when one is supplied and CLICKUP_CONFIG.LIST_ID when it is omitted.
TargetsSuppliedOrDefaultList ==
  ListRequestSent =>
    /\ eval.request.path[1] = "list"
    /\ eval.request.path[2] =
         (IF eval.args.list_id # Missing THEN eval.args.list_id.v ELSE LIST_ID)

\* C13 amended: the list id in the request path is the caller's list_id when
\* a non-empty one is supplied, and CLICKUP_CONFIG.LIST_ID when it is omitted
\* or the empty string; no request targets another list.
TargetsNonEmptySuppliedOrDefaultList ==
  ListRequestSent =>
    /\ eval.request.path[1] = "list"
    /\ eval.request.path[2] =
         (IF eval.args.list_id \notin {Missing, Str("")}
            THEN eval.args.list_id.v ELSE LIST_ID)

TargetsNonEmptySuppliedOrDefaultListWitness ==
  /\ ListRequestSent /\ eval.tool = "get_list_custom_fields"
  /\ eval.args.list_id = Missing
  /\ eval.request.path = <<"list", LIST_ID, "field">>

\* C14: create_task and post_comment send notify_all = true when the caller
\* omits it and the caller's value otherwise; a create_task with only a name
\* targets the default list.
NotifyAllDefaultsToTrue ==
  (eval.fn = "request" /\ eval.accepted /\ eval.tool \in {"create_task", "post_comment"}) =>
    /\ "notify_all" \in DOMAIN eval.request.body
    /\ eval.request.body.notify_all =
         (IF eval.args.notify_all = Missing THEN Bool(TRUE) ELSE eval.args.notify_all)
    /\ (eval.tool = "create_task" /\ \A n \in DOMAIN eval.args \ {"name"} :
                                         eval.args[n] = Missing) =>
         eval.request.path = <<"list", LIST_ID, "task">>

NotifyAllDefaultsToTrueWitness ==
  /\ eval.fn = "request" /\ eval.accepted /\ eval.tool = "create_task"
  /\ eval.args.name = Str("abc")
  /\ \A n \in DOMAIN eval.args \ {"name"} : eval.args[n] = Missing
  /\ eval.request.body.notify_all = Bool(TRUE)
  /\ eval.request.path = <<"list", LIST_ID, "task">>

\* A value of the kind the upstream field's declared type takes.
ValueMatches(type, v) ==
  CASE type = "number" -> v.t = "number"
    [] type = "short_text" -> v.t = "string"
    [] type = "checkbox" -> v.t = "boolean"
    [] OTHER -> FALSE

\* C15: every value set_custom_field sends upstream matches the declared
\* type of the target field.
SentValueMatchesFieldType ==
  (eval.fn = "request" /\ eval.accepted /\ eval.tool = "set_custom_field") =>
    ValueMatches(UpstreamFieldType(eval.args.field_id.v), eval.request.body.value)

\* ------------------------------------------------ token encryption round trip
\* The token records, encryption keys and ivs the round trip is evaluated on:
\* keys shorter than, equal to after padding, and longer than KEY_LENGTH
\* characters, and a key with a character outside ASCII.
TokenRecords ==
  [access_token : AccessTokens \cup {""}, token_type : {"Bearer"},
   created_at : Timestamps \cup {"0"}]

LongKey == [i \in 1..(KEY_LENGTH + 1) |-> "k"]

EncryptionKeys == {<< >>, <<"s", "3">>, <<"s", "3", "0">>, LongKey, <<"é">>}

RandomIVs == {"iv0", "iv1", "iv2"}

\* encryptToken twice on one token and key, with the ivs getRandomValues
\* drew, then decryptToken on the first stored string with the same key.
EvalRoundTrip(token, encryptionKey, iv1, iv2) ==
  /\ eval.fn = "none"
  /\ LET first == encryptToken(token, encryptionKey, iv1) IN
     eval' = [fn |-> "roundTrip", token |-> token, encryptionKey |-> encryptionKey,
              iv1 |-> iv1, iv2 |-> iv2,
              first |-> first,
              second |-> encryptToken(token, encryptionKey, iv2),
              decrypted |-> IF first = EncryptFailed
                              THEN EncryptFailed
                              ELSE decryptToken(first, encryptionKey)]
  /\ UNCHANGED <<env, issued, stateKV, tokenKV, cb, consumed, response, dispatcher, call>>

CryptoNext ==
  \E token \in TokenRecords, encryptionKey \in EncryptionKeys, iv1, iv2 \in RandomIVs :
    EvalRoundTrip(token, encryptionKey, iv1, iv2)

SpecCrypto == Init /\ [][CryptoNext]_vars

\* C16: for every token record and encryption key, decrypting what
\* encryptToken returned, under the same key, gives a record with the same
\* access token, token type and creation timestamp; and two encryptions of one
\* token under different ivs give different stored strings.
RoundTripReturnsToken ==
  eval.fn = "roundTrip" =>
    /\ eval.decrypted \notin {EncryptFailed, DecryptFailed}
    /\ eval.decrypted.access_token = eval.token.access_token
    /\ eval.decrypted.token_type = eval.token.token_type
    /\ eval.decrypted.created_at = eval.token.created_at
    /\ eval.iv1 # eval.iv2 => eval.first # eval.second

\* ------------------------------------------------------------ authorize steps
\* C19: without a client id handleAuthorize answers the 500 configuration
\* error, stores no state record and does not redirect; with one it stores
\* exactly one new state record, under a nonce not issued before, and answers
\* the 302 whose state parameter is that nonce.
AuthorizeStoresOneState ==
  [][response'.handler = "authorize" =>
       IF ~Truthy(env.CLICKUP_CLIENT_ID)
         THEN /\ response'.status = 500
              /\ response'.body = "Configuration Error"
              /\ stateKV' = stateKV
         ELSE /\ response'.status = 302
              /\ response'.state \in StateKeys
              /\ NonceStatus(response'.state) = "never issued"
              /\ stateKV'[response'.state] # Absent
              /\ \A k \in StateKeys \ {response'.state} : stateKV'[k] = stateKV[k]]_vars

\* A second authorize has redirected while the first one's record is stored.
AuthorizeStoresOneStateWitness ==
  /\ response.handler = "authorize"
  /\ response.status = 302
  /\ \A k \in StateKeys : stateKV[k] # Absent

\* ------------------------------------------- the status and logout endpoints
DefaultRecord(store) == KvGet(store, "default")

\* The Worker's configuration as the status endpoint can find it, with two
\* values of the static token.
StatusEnvs ==
  [CLICKUP_CLIENT_ID : {"", "client-id"},
   CLICKUP_CLIENT_SECRET : {"", "client-secret"},
   CLICKUP_API_TOKEN : {"", "pk_static", "pk_other"},
   COOKIE_ENCRYPTION_KEY : ConfiguredKeys]

\* Keys COOKIE_ENCRYPTION_KEY had before it was changed: one that imports to
\* other key bytes, and one that differs from <<"s", "3">> only by padding.
PreviousKeys == {<<"o", "l", "d">>, <<"s", "3", "0">>}

\* A stored string that was damaged after encryptToken returned it.
Corrupted(encryptedData) == [encryptedData EXCEPT !.intact = FALSE]

\* The values the default key can hold for a Worker with configuration e:
\* written by a callback under the current key or under a previous one, or
\* damaged since.
StoredValues(e) ==
  LET written(k) == {encryptToken(t, k, iv) : t \in TokenRecords, iv \in IVs} IN
  written(EncryptionKey(e))
    \cup UNION {written(k) : k \in PreviousKeys}
    \cup {Corrupted(v) : v \in written(EncryptionKey(e))}

\* The store as a callback for user 101 left it: the value under both keys.
StatusStores(e) ==
  {[k \in TokenKeys |-> Absent]} \cup
  {[k \in TokenKeys |-> [value |-> v, expirationTtl |-> TOKEN_TTL_SECONDS]] :
     v \in StoredValues(e)}

StatusInit ==
  /\ env \in StatusEnvs
  /\ issued = 0
  /\ stateKV = [k \in StateKeys |-> Absent]
  /\ tokenKV \in StatusStores(env)
  /\ cb = EmptyBag
  /\ consumed = {}
  /\ response = NoResponse
  /\ dispatcher = "ClickUpMCP"
  /\ call = NoCall
  /\ eval = NoEval

StatusNext ==
  \/ HandleStatus
  \/ HandleLogout

SpecStatus == StatusInit /\ [][StatusNext]_vars

\* The stored string is not what AES-GCM under the current key accepts.
Unreadable(record, e) ==
  /\ record # Absent
  /\ \/ ~record.value.intact
     \/ record.value.key # ImportKey(EncryptionKey(e))

\* C17: when the record under the default key cannot be decrypted, because
\* the value is corrupted or was encrypted under another key, getStoredToken
\* returns null, hasValidToken is false and the status endpoint answers
\* authenticated = false.
UnreadableTokenIsNoToken ==
  (response.handler = "status" /\ Unreadable(DefaultRecord(tokenKV), env)) =>
    /\ getStoredToken(tokenKV, env, "default") = NoToken
    /\ ~hasValidToken(tokenKV, env, "default")
    /\ response.authenticated = FALSE

\* Status has answered for a store whose record was written under another key.
UnreadableTokenIsNoTokenWitness ==
  /\ response.handler = "status"
  /\ DefaultRecord(tokenKV) # Absent
  /\ DefaultRecord(tokenKV).value.intact
  /\ DefaultRecord(tokenKV).value.key # ImportKey(EncryptionKey(env))
  /\ response.authenticated = FALSE

\* C20: the status response depends only on whether a valid token exists,
\* whether the OAuth client credentials are configured and whether a static
\* token is configured: every configuration and store that agree with the
\* current ones on these three get the same response, whatever the stored
\* access token or the static token is.
StatusDependsOnlyOnFlags ==
  response.handler = "status" =>
    \A e \in StatusEnvs : \A store \in StatusStores(e) :
      ( /\ hasValidToken(store, e, "default") = hasValidToken(tokenKV, env, "default")
        /\ CredentialsConfigured(e) = CredentialsConfigured(env)
        /\ Truthy(e.CLICKUP_API_TOKEN) = Truthy(env.CLICKUP_API_TOKEN) )
      => StatusResponse(store, e) = response

\* Status has answered authenticated with a static token configured, and there
\* is another stored access token and another static token to compare with.
StatusDependsOnlyOnFlagsWitness ==
  /\ response.handler = "status"
  /\ response.authenticated = TRUE
  /\ response.fallback_token = TRUE
  /\ \E e \in StatusEnvs : \E store \in StatusStores(e) :
       /\ e.CLICKUP_API_TOKEN \notin {"", env.CLICKUP_API_TOKEN}
       /\ hasValidToken(store, e, "default")
       /\ getStoredToken(store, e, "default") # getStoredToken(tokenKV, env, "default")
       /\ CredentialsConfigured(e) = CredentialsConfigured(env)

\* C18: handleLogout answers success whether or not a default-key record
\* exists, and leaves no default-key record; run on a store without one it
\* leaves the store as it was; and a status request after a logout, with only
\* status and logout requests in between, reports authenticated = false.
LogoutIdempotent ==
  [][/\ response'.handler = "logout" =>
          /\ response'.status = 200 /\ response'.body = "success"
          /\ DefaultRecord(tokenKV') = Absent
          /\ DefaultRecord(tokenKV) = Absent => tokenKV' = tokenKV
     /\ (DefaultRecord(tokenKV) = Absent /\ response'.handler = "status") =>
          response'.authenticated = FALSE]_vars

\* A logout has answered on a store in which a callback had stored a token
\* the current key decrypts.
LogoutIdempotentWitness ==
  /\ response.handler = "logout"
  /\ DefaultRecord(tokenKV) = Absent
  /\ hasValidToken(tokenKV, env, "101")

\* ---------------------------------------------------- the order of the flow
\* Some step of the behaviour so far issued the nonce.
IssuedByAuthorize(state) == \E i \in 1..issued : NonceNames[i] = state

\* C22: a token record is written only by a callback that found a state
\* record an authorize step had stored, has had its delete carried out and has
\* received a 2xx answer with a token from the token endpoint, in this order;
\* state records exist only for nonces handleAuthorize issued.
TokenWrittenOnlyAfterExchange ==
  [][/\ \A k \in StateKeys : stateKV[k] # Absent => IssuedByAuthorize(k)
     /\ \A c \in Running :
          /\ c.pc = "delete" =>
               (c.found /\ ~c.deleted /\ c.exchanges = 0 /\ c.writes = 0)
          /\ c.pc \in {"putUser", "putDefault"} =>
               (c.found /\ c.deleted /\ c.exchanges = 1)
     /\ \A key \in TokenKeys : (tokenKV'[key] # tokenKV[key] /\ tokenKV'[key] # Absent) =>
          \E c \in Running :
            /\ c.pc \in {"putUser", "putDefault"}
            /\ tokenKV'[key].value = c.encryptedToken
            /\ c.nonce = "stored" /\ IssuedByAuthorize(c.state)
            /\ c.found /\ c.deleted /\ c.exchanges = 1
            /\ c.access_token \in AccessTokens]_vars

\* A callback has consumed a nonce and its token is stored under both keys.
TokenWrittenOnlyAfterExchangeWitness ==
  /\ consumed # {}
  /\ cb = EmptyBag
  /\ \A key \in TokenKeys : tokenKV[key] # Absent

\* ------------------------------------------------ tool calls and adapter state
\* C23: no step of a tool invocation, whether it ends in a success or in a
\* validation, credential or upstream error, changes the key-value store or
\* the configuration; and the handler that awaits its next call holds nothing
\* of the earlier ones, so the next invocation starts from the arguments, the
\* configuration and the store alone.
ToolCallChangesNoState ==
  [][/\ env' = env /\ tokenKV' = tokenKV /\ stateKV' = stateKV
     /\ dispatcher' = dispatcher
     /\ call.pc = "responded" => call' = NoCall
     /\ call.pc = "awaiting-call" =>
          /\ call = NoCall
          /\ \E tool \in Tools(dispatcher) : \E args \in ArgsOf(tool) :
               call' = HandlerEntry(dispatcher, env, tool, args)]_vars

\* An invocation has ended in an upstream error with a token in the store.
ToolCallChangesNoStateWitness ==
  /\ call.pc = "responded" /\ call.reply.isError /\ call.requests = 1
  /\ DefaultRecord(tokenKV) # Absent
  /\ getStoredToken(tokenKV, env, "default") \in AccessTokens

\* ------------------------------------------------------------ the storage key
\* C24: after a successful token exchange the storage key is the user id the
\* lookup returned when it returned one, and "default" when the lookup
\* failed; a callback whose lookup failed still returns the success page, and
\* then getStoredToken on the default key returns the exchanged token.
UserKeyResolvedOrDefault ==
  \A c \in Callbacks :
    (c.access_token \in AccessTokens /\ c.lookup # "none") =>
      /\ c.lookup = "resolved" => c.userId \in {String(n) : n \in UserIds \ {0}}
      /\ c.lookup # "resolved" =>
           /\ c.pc # "done" => c.userId = "default"
           /\ c.pc = "done" =>
                /\ c.status = 200
                /\ c.userId = "default"
                /\ getStoredToken(tokenKV, env, "default") = c.access_token

\* ------------------------------------------------------------ failed callbacks
\* The step is invocation c returning an error after it found its record.
FailsAfterValidation(c) ==
  /\ c.pc = "delete"
  /\ cb' = cb (-) SetToBag({c})
  /\ response'.handler = "callback"
  /\ response'.status = 500
  /\ response'.body \in {"Configuration Error", "Token Exchange Failed"}

\* C25: a callback that found its state record and then fails, because the
\* client credentials are not configured or the token endpoint answers
\* non-2xx, has deleted the record; the record stays deleted, and a later
\* callback with the same nonce is answered 400 without finding it.
FailedCallbackConsumesNonce ==
  [][/\ \A c \in Running : FailsAfterValidation(c) =>
          /\ response'.found /\ response'.deleted
          /\ stateKV'[c.state] = Absent
          /\ NonceStatus(c.state)' = "consumed"
     /\ \A k \in consumed : stateKV'[k] = Absent /\ k \in consumed'
     /\ (response'.handler = "callback" /\ response'.nonce = "consumed") =>
          (response'.status = 400 /\ ~response'.found)]_vars

\* A callback has failed at the token exchange after deleting its record.
FailedCallbackConsumesNonceWitness ==
  /\ response.handler = "callback" /\ response.status = 500
  /\ response.body = "Token Exchange Failed"
  /\ response.found /\ response.deleted
  /\ consumed # {} /\ \A k \in consumed : stateKV[k] = Absent

\* C26: a callback that fails after it found its state record (configuration
\* error, or the token endpoint answers non-2xx) has put no token record: no
\* step of it changes the token records, from its arrival to its response.
FailedCallbackWritesNoToken ==
  [][/\ \A c \in Running : c.pc = "delete" => c.writes = 0
     /\ \A c \in Running : FailsAfterValidation(c) =>
          /\ response'.writes = 0
          /\ tokenKV' = tokenKV
     /\ (response'.handler = "callback" /\ response'.status = 500) =>
          (response'.found /\ response'.writes = 0)
     /\ (cb' # cb /\ \E c \in BagToSet(cb') : c.pc = "delete" /\ c \notin Running) =>
          tokenKV' = tokenKV]_vars

\* A callback has answered the configuration error or the failed exchange
\* while the token of an earlier callback is stored under both keys.
FailedCallbackWritesNoTokenWitness ==
  /\ response.handler = "callback" /\ response.status = 500
  /\ response.found /\ response.writes = 0
  /\ \A key \in TokenKeys : tokenKV[key] # Absent

\* C27: a callback with an error parameter, or without a code or a state,
\* is answered 400 without a get, delete or put of any key and without a
\* token exchange; a state record its request names stays stored.
MalformedCallbackTouchesNothing ==
  [][/\ \A c \in Running : c.wellFormed
     /\ (response'.handler = "callback" /\ ~response'.wellFormed) =>
          /\ response'.status = 400
          /\ response'.body \in {"OAuth Error", "Invalid Request"}
          /\ response'.gets = 0 /\ ~response'.found /\ ~response'.deleted
          /\ response'.exchanges = 0 /\ response'.lookup = "none"
          /\ response'.writes = 0
          /\ stateKV' = stateKV /\ tokenKV' = tokenKV /\ consumed' = consumed
          /\ cb' = cb]_vars

\* A request with an error parameter and a stored nonce has been answered,
\* and the record is still stored.
MalformedCallbackTouchesNothingWitness ==
  /\ response.handler = "callback" /\ response.body = "OAuth Error"
  /\ response.nonce = "stored"
  /\ \E k \in StateKeys : stateKV[k] # Absent /\ k \notin consumed

\* ------------------------------------------------------ logout and user keys
\* C28: handleLogout deletes the default key only: the record a callback
\* stored under a user key is unchanged by it, and getStoredToken for that
\* user key returns what it returned before.
LogoutKeepsUserKeys ==
  [][response'.handler = "logout" =>
       \A k \in TokenKeys \ {"default"} :
         /\ tokenKV'[k] = tokenKV[k]
         /\ getStoredToken(tokenKV', env', k) = getStoredToken(tokenKV, env, k)]_vars

\* After a logout the user key still returns the token the callback stored.
LogoutKeepsUserKeysWitness ==
  /\ response.handler = "logout"
  /\ DefaultRecord(tokenKV) = Absent
  /\ getStoredToken(tokenKV, env, "101") = "tokB"

\* ------------------------------------------------ independence of the nonces
\* C29: a step changes the state record of at most the one nonce it is
\* about: handleAuthorize stores the record of the nonce it issues, a callback
\* deletes the record of the nonce it carries, a rejected callback changes
\* none; every other outstanding record is left as it was.
NoncesIndependent ==
  [][\A k \in StateKeys : stateKV'[k] # stateKV[k] =>
       /\ \A j \in StateKeys \ {k} : stateKV'[j] = stateKV[j]
       /\ \/ /\ response'.handler = "authorize" /\ response'.state = k
             /\ stateKV[k] = Absent
          \/ /\ \E c \in Running : c.pc = "delete" /\ c.state = k /\ cb' # cb
             /\ stateKV'[k] = Absent
          \/ /\ response' = NoResponse /\ cb' = cb /\ issued' = issued
             /\ stateKV'[k] = Absent]_vars

\* Two flows were started before any callback, and each has completed.
NoncesIndependentWitness ==
  /\ issued = 2 /\ consumed = {NonceNames[1], NonceNames[2]}
  /\ cb = EmptyBag
  /\ response.handler = "callback" /\ response.status = 200
  /\ getStoredToken(tokenKV, env, "default") = response.access_token

\* ------------------------------------------------------- the default-key slot
\* C30: the default key holds one record, the one of the callback that put
\* it last: whenever the record changes, it becomes the record of an
\* invocation that is putting the default key (or is deleted by a logout),
\* whatever it held before; a callback that returns the success page has
\* just written it, and getStoredToken on the default key returns that
\* callback's token and no earlier one.
DefaultKeyLastWriterWins ==
  [][/\ DefaultRecord(tokenKV') # DefaultRecord(tokenKV) =>
          \/ DefaultRecord(tokenKV') = Absent /\ response'.handler = "logout"
          \/ \E c \in Running :
               /\ \/ c.pc = "putDefault"
                  \/ c.pc = "putUser" /\ c.userId = "default"
               /\ DefaultRecord(tokenKV').value = c.encryptedToken
               /\ getStoredToken(tokenKV', env, "default") = c.access_token
     /\ (response'.handler = "callback" /\ response'.status = 200) =>
          /\ getStoredToken(tokenKV', env, "default") = response'.access_token
          /\ \A t \in AccessTokens \ {response'.access_token} :
               getStoredToken(tokenKV', env, "default") # t]_vars

\* The callbacks are over; the default key returns the token of the last
\* one, the user key still the token of an earlier one.
DefaultKeyLastWriterWinsWitness ==
  /\ cb = EmptyBag
  /\ response.handler = "callback" /\ response.status = 200
  /\ response.access_token = "tokB"
  /\ getStoredToken(tokenKV, env, "101") = "tokA"
  /\ getStoredToken(tokenKV, env, "default") = "tokB"

====
